---- MODULE Spec2Model ----
(***************************************************************************)
(* Model of src/src/App.tsx (domain-replacer): the App component's React   *)
(* state, its four effects, its event handlers and the localStorage        *)
(* records it keeps.                                                        *)
(*                                                                          *)
(* Strings are sequences of tokens.  A token is an indivisible run of      *)
(* characters ("https://", "a.com", "/1", " ", "\n", ...); the strings the *)
(* model feeds the program are lexed so that a protocol prefix, a host, a  *)
(* path, a blank and a line break are each one token.  The empty string is *)
(* <<>>.  JavaScript's null is the one-token string Null.                   *)
(***************************************************************************)
EXTENDS Integers, Sequences, FiniteSets, TLC

VARIABLES
    inputUrls,            \* useState('')            App.tsx:33
    oldDomain,            \* useState('')            App.tsx:34
    newDomain,            \* useState('')            App.tsx:35
    outputUrls,           \* useState('')            App.tsx:36
    history,              \* useState<HistoryEntry[]>([])  App.tsx:37
    presets,              \* useState<PresetEntry[]>([])   App.tsx:38
    presetName,           \* useState('')            App.tsx:39
    autoExtractEnabled,   \* useState(true)          App.tsx:40
    localStorage,         \* the two records the component keeps in the browser store
    now,                  \* the last value Date.now() returned
    pc,                   \* "mount", "render" (an effect's update awaits its render), "idle", "crashed"
    queue,                \* the effects of the mount still to run, in order
    pend,                 \* state updates that effects have queued
    op,                   \* the last operation invoked: its handler and argument
    exText,               \* argument given to extractCommonDomain (function harness)
    exResult,             \* what it returned
    exDone                \* whether the harness has applied it

appVars == <<inputUrls, oldDomain, newDomain, outputUrls, history, presets,
             presetName, autoExtractEnabled>>
runVars == <<localStorage, now, pc, queue, pend, op>>
exVars == <<exText, exResult, exDone>>
vars == <<appVars, runVars, exVars>>

-----------------------------------------------------------------------------
(* Strings *)

Null == <<"<null>">>

\* String.prototype.toLowerCase, on the tokens the model uses.
Lower(c) ==
    CASE c = "HTTP://" -> "http://"
      [] c = "HTTPS://" -> "https://"
      [] c = "A.com" -> "a.com"
      [] c = "N.com" -> "n.com"
      [] OTHER -> c

toLowerCase(s) == [i \in 1..Len(s) |-> Lower(s[i])]

IsSpace(c) == c \in {" ", "\n"}

RECURSIVE trimStart(_)
trimStart(s) == IF s # <<>> /\ IsSpace(Head(s)) THEN trimStart(Tail(s)) ELSE s

RECURSIVE trimEnd(_)
trimEnd(s) ==
    IF s # <<>> /\ IsSpace(s[Len(s)]) THEN trimEnd(SubSeq(s, 1, Len(s) - 1)) ELSE s

\* String.prototype.trim
trim(s) == trimEnd(trimStart(s))

\* The regular expression /^(https?:\/\/)/i of removeProtocol.
ProtocolPrefixes == {"http://", "https://"}

\* The regular expression without its i flag.
removeProtocolCaseSensitive(domain) ==
    IF domain # <<>> /\ Head(domain) \in ProtocolPrefixes THEN Tail(domain) ELSE domain

\* removeProtocol: domain.replace(/^(https?:\/\/)/i, '')
removeProtocol(domain) ==
    IF domain # <<>> /\ Lower(Head(domain)) \in ProtocolPrefixes
    THEN Tail(domain)
    ELSE domain

\* text.split('\n'): the lines of a text, the empty text being one empty line.
RECURSIVE split(_)
split(text) ==
    IF \E i \in 1..Len(text) : text[i] = "\n"
    THEN LET i == CHOOSE k \in 1..Len(text) :
                      text[k] = "\n" /\ \A j \in 1..(k - 1) : text[j] # "\n"
         IN <<SubSeq(text, 1, i - 1)>> \o split(SubSeq(text, i + 1, Len(text)))
    ELSE <<text>>

\* lines.join('\n')
RECURSIVE join(_)
join(lines) ==
    IF lines = <<>> THEN <<>>
    ELSE IF Len(lines) = 1 THEN Head(lines)
    ELSE Head(lines) \o <<"\n">> \o join(Tail(lines))

IsBlank(line) == trim(line) = <<>>

\* urlsText.split('\n').filter(url => url.trim() !== '')
nonEmptyLines(text) == SelectSeq(split(text), LAMBDA l : ~IsBlank(l))

-----------------------------------------------------------------------------
(* URLs: new URL(str), url.hostname, the hostname setter and url.toString() *)

HostTokens == {"a.com", "A.com", "b.com", "c.com", "n.com", "N.com"}
PathTokens == {"/1", "/2", "/3", "/a.com"}

NoURL == [ok |-> FALSE, scheme |-> "", hostname |-> "", path |-> <<>>]

\* new URL(s): an absolute http(s) URL is a scheme, a host and either path
\* tokens or the root path "/", which is also the path of a URL written without
\* one; the parser lower-cases the scheme and the host.  Anything else throws
\* (ok = FALSE).
parseURL(s) ==
    IF /\ Len(s) >= 2
       /\ Lower(s[1]) \in ProtocolPrefixes
       /\ s[2] \in HostTokens
       /\ \/ SubSeq(s, 3, Len(s)) = <<"/">>
          \/ \A i \in 3..Len(s) : s[i] \in PathTokens
    THEN [ok |-> TRUE, scheme |-> Lower(s[1]), hostname |-> Lower(s[2]),
          path |-> IF SubSeq(s, 3, Len(s)) = <<"/">> THEN <<>> ELSE SubSeq(s, 3, Len(s))]
    ELSE NoURL

\* url.hostname = d: the setter reads a host up to the first "/" and ignores
\* what follows it; a value that does not start with a host leaves the URL as
\* it is.
setHostname(url, d) ==
    IF /\ Len(d) >= 1
       /\ d[1] \in HostTokens
       /\ \A i \in 2..Len(d) : d[i] \in PathTokens
    THEN [url EXCEPT !.hostname = Lower(d[1])]
    ELSE url

\* url.toString(): an empty path is serialized as "/".
urlToString(url) ==
    <<url.scheme, url.hostname>> \o (IF url.path = <<>> THEN <<"/">> ELSE url.path)

-----------------------------------------------------------------------------
(* extractCommonDomain, App.tsx:85-109 *)

\* The forEach of lines 93-105 over urls[1..n]: the tallies, maxCount and
\* commonDomain after n lines.
RECURSIVE tally(_, _)
tally(urls, n) ==
    IF n = 0
    THEN [domainCounts |-> [h \in {} |-> 0], maxCount |-> 0, commonDomain |-> Null]
    ELSE LET acc == tally(urls, n - 1)
             url == parseURL(trim(urls[n]))
             domain == url.hostname
             c == IF domain \in DOMAIN acc.domainCounts
                  THEN acc.domainCounts[domain] + 1 ELSE 1
             counts == [h \in (DOMAIN acc.domainCounts) \cup {domain} |->
                           IF h = domain THEN c ELSE acc.domainCounts[h]]
         IN IF ~url.ok THEN acc
            ELSE IF c > acc.maxCount
                 THEN [domainCounts |-> counts, maxCount |-> c,
                       commonDomain |-> <<domain>>]
                 ELSE [acc EXCEPT !.domainCounts = counts]

\* The threshold with >= in place of >.
extractThresholdAtLeastHalf(urls, t) ==
    2 * t.maxCount >= Len(urls) \/ Cardinality(DOMAIN t.domainCounts) = 1

\* maxCount > urls.length / 2 || Object.keys(domainCounts).length === 1
extractThreshold(urls, t) ==
    2 * t.maxCount > Len(urls) \/ Cardinality(DOMAIN t.domainCounts) = 1

extractCommonDomain(urlsText) ==
    LET urls == nonEmptyLines(urlsText)
        t == tally(urls, Len(urls))
    IN IF Len(urls) = 0 THEN Null
       ELSE IF extractThreshold(urls, t) THEN t.commonDomain ELSE Null

-----------------------------------------------------------------------------
(* The replace loop of handleReplace, App.tsx:148-171 *)

\* The marker appended to a line that does not parse (the literal of line 167).
InvalidMarker == " (invalid URL)"

\* The body with the invalid marker left out.
replaceLineNoMarker(urlStr, cleanOldDomain, cleanNewDomain) ==
    LET url == parseURL(trim(urlStr))
    IN IF ~url.ok THEN trim(urlStr)
       ELSE IF toLowerCase(<<url.hostname>>) = toLowerCase(cleanOldDomain)
            THEN urlToString(setHostname(url, cleanNewDomain))
            ELSE trim(urlStr)

\* The body with the hostnames compared as they are written.
replaceLineExactCase(urlStr, cleanOldDomain, cleanNewDomain) ==
    LET url == parseURL(trim(urlStr))
    IN IF ~url.ok THEN trim(urlStr) \o <<InvalidMarker>>
       ELSE IF <<url.hostname>> = cleanOldDomain
            THEN urlToString(setHostname(url, cleanNewDomain))
            ELSE trim(urlStr)

\* The body of urls.map(...), lines 150-169.
replaceLine(urlStr, cleanOldDomain, cleanNewDomain) ==
    LET url == parseURL(trim(urlStr))
    IN IF ~url.ok THEN trim(urlStr) \o <<InvalidMarker>>
       ELSE IF toLowerCase(<<url.hostname>>) = toLowerCase(cleanOldDomain)
            THEN urlToString(setHostname(url, cleanNewDomain))
            ELSE trim(urlStr)

replacedUrlsArray(text, cleanOldDomain, cleanNewDomain) ==
    LET urls == nonEmptyLines(text)
    IN [i \in 1..Len(urls) |-> replaceLine(urls[i], cleanOldDomain, cleanNewDomain)]

invalidUrlCount(text) ==
    LET urls == nonEmptyLines(text)
    IN Cardinality({i \in 1..Len(urls) : ~parseURL(trim(urls[i])).ok})

-----------------------------------------------------------------------------
(* localStorage and JSON.  A stored text is kept as what it parses to: the  *)
(* JSON text of an array, the JSON text null, or a text JSON.parse rejects. *)

Absent == [kind |-> "absent", val |-> <<>>]
Garbage == [kind |-> "garbage", val |-> <<>>]
JsonNull == [kind |-> "null", val |-> <<>>]

\* JSON.stringify(collection)
JSONstringify(collection) == [kind |-> "array", val |-> collection]

\* JSON.parse(text): ok = FALSE when it throws; otherwise the value, an array
\* (isArray, items) or null.
JSONparse(text) ==
    CASE text.kind = "array" -> [ok |-> TRUE, isArray |-> TRUE, items |-> text.val]
      [] text.kind = "null" -> [ok |-> TRUE, isArray |-> FALSE, items |-> <<>>]
      [] OTHER -> [ok |-> FALSE, isArray |-> FALSE, items |-> <<>>]

HistoryKey == "domainReplacerHistory"
PresetsKey == "domainReplacerPresets"

setItem(store, key, text) == [store EXCEPT ![key] = text]
removeItem(store, key) == [store EXCEPT ![key] = Absent]

-----------------------------------------------------------------------------------------------------------------------------------------------------
(* Effects.  React runs the effects whose dependencies changed after each   *)
(* commit, in the order they are declared, and renders the updates they     *)
(* queue before it handles the next event.                                  *)

NoPend == [history |-> <<>>, presets |-> <<>>, oldDomain |-> <<>>]

\* useEffect(() => {...}, []), App.tsx:43-62, for one key.
loadStored(store, key) ==
    LET text == store[key]
        parsed == JSONparse(text)
    IN IF text.kind = "absent" THEN [set |-> <<>>, store |-> store]
       ELSE IF parsed.ok THEN [set |-> <<parsed>>, store |-> store]
       ELSE [set |-> <<>>, store |-> removeItem(store, key)]

\* A save effect that leaves the record alone when the collection is empty.
saveCollectionNoRemove(store, key, collection) ==
    IF Len(collection) > 0
    THEN setItem(store, key, JSONstringify(collection))
    ELSE store

\* The body of the two save effects, App.tsx:66-71 and 76-81.
saveCollection(store, key, collection) ==
    IF Len(collection) > 0
    THEN setItem(store, key, JSONstringify(collection))
    ELSE removeItem(store, key)

\* The guard without the check that the field is empty.
autoExtractWritesAnyField(enabled, commonDomain, old) ==
    enabled /\ commonDomain # Null /\ commonDomain # <<>>

\* The guard of the auto-extract effect, lines 112-114.
autoExtractWrites(enabled, commonDomain, old) ==
    enabled /\ commonDomain # Null /\ commonDomain # <<>> /\ old = <<>>

\* The auto-extract effect, App.tsx:111-118, run on the state (enabled, text,
\* old): the setOldDomain it queues, if any.
autoExtract(enabled, text, old) ==
    LET commonDomain == extractCommonDomain(text)
    IN IF autoExtractWrites(enabled, commonDomain, old)
       THEN <<removeProtocol(commonDomain)>>
       ELSE <<>>

\* The store after the save effects of a commit that set history (historySet)
\* and presets (presetsSet) to the collections given.
saveEffects(store, historySet, newHistory, presetsSet, newPresets) ==
    LET s1 == IF historySet THEN saveCollection(store, HistoryKey, newHistory) ELSE store
    IN IF presetsSet THEN saveCollection(s1, PresetsKey, newPresets) ELSE s1

\* A dependency list holding the input text alone.
extractDepsInputOnly == inputUrls' # inputUrls

extractDepsChanged ==
    \/ inputUrls' # inputUrls
    \/ oldDomain' # oldDomain
    \/ autoExtractEnabled' # autoExtractEnabled

\* The effects of the commit that this step makes (the primed state), run on
\* store: the save effects, then the auto-extract effect, whose update, if it
\* queues one, awaits its render.
runEffects(store, historySet, presetsSet) ==
    LET update == IF extractDepsChanged
                  THEN autoExtract(autoExtractEnabled', inputUrls', oldDomain')
                  ELSE <<>>
    IN /\ localStorage' = saveEffects(store, historySet, history', presetsSet, presets')
       /\ pend' = [NoPend EXCEPT !.oldDomain = update]
       /\ pc' = IF update # <<>> THEN "render" ELSE "idle"
       /\ queue' = <<>>

\* A handler is invoked between operations; its updates are committed together
\* and the effects of the commit run.  store is the store as the handler left it.
commit(name, arg, store, historySet, presetsSet) ==
    /\ pc = "idle"
    /\ op' = [name |-> name, arg |-> arg]
    /\ runEffects(store, historySet, presetsSet)

\* The mount runs its effects one at a time.
mountEffect(name) ==
    /\ pc = "mount"
    /\ queue # <<>>
    /\ Head(queue) = name
    /\ queue' = Tail(queue)
    /\ UNCHANGED <<appVars, pc, op, now, exVars>>

\* useEffect(() => {...}, []), App.tsx:43-62
LoadEffect ==
    /\ mountEffect("load")
    /\ LET h == loadStored(localStorage, HistoryKey)
           p == loadStored(h.store, PresetsKey)
       IN /\ pend' = [pend EXCEPT !.history = h.set, !.presets = p.set]
          /\ localStorage' = p.store

\* useEffect(() => {...}, [history]), App.tsx:65-72
SaveHistoryEffect ==
    /\ mountEffect("saveHistory")
    /\ localStorage' = saveCollection(localStorage, HistoryKey, history)
    /\ UNCHANGED pend

\* useEffect(() => {...}, [presets]), App.tsx:75-82
SavePresetsEffect ==
    /\ mountEffect("savePresets")
    /\ localStorage' = saveCollection(localStorage, PresetsKey, presets)
    /\ UNCHANGED pend

\* useEffect(() => {...}, [inputUrls, autoExtractEnabled, extractCommonDomain,
\* oldDomain]), App.tsx:111-118
AutoExtractEffect ==
    /\ mountEffect("autoExtract")
    /\ pend' = [pend EXCEPT !.oldDomain = autoExtract(autoExtractEnabled, inputUrls, oldDomain)]
    /\ UNCHANGED localStorage

\* The render of the updates that effects queued, and the effects of that
\* commit.  A loaded value that is not an array makes the render throw
\* (history.length of null, line 419; presets.length, line 381) and React
\* unmounts the component.
Render ==
    /\ \/ (pc = "mount" /\ queue = <<>>)
       \/ pc = "render"
    /\ UNCHANGED <<now, op, exVars>>
    /\ IF \/ (pend.history # <<>> /\ ~pend.history[1].isArray)
          \/ (pend.presets # <<>> /\ ~pend.presets[1].isArray)
       THEN /\ pc' = "crashed"
            /\ pend' = NoPend
            /\ UNCHANGED <<appVars, localStorage, queue>>
       ELSE /\ history' = IF pend.history # <<>> THEN pend.history[1].items ELSE history
            /\ presets' = IF pend.presets # <<>> THEN pend.presets[1].items ELSE presets
            /\ oldDomain' = IF pend.oldDomain # <<>> THEN pend.oldDomain[1] ELSE oldDomain
            /\ UNCHANGED <<inputUrls, newDomain, outputUrls, presetName,
                           autoExtractEnabled>>
            /\ runEffects(localStorage, pend.history # <<>>, pend.presets # <<>>)

-----
(* Event handlers.  Each is invoked between operations (pc = "idle").       *)

\* onChange of the URL textarea, App.tsx:302
setInputUrls(text) ==
    /\ inputUrls' = text
    /\ UNCHANGED <<oldDomain, newDomain, outputUrls, history, presets, presetName,
                   autoExtractEnabled, now, exVars>>
    /\ commit("setInputUrls", text, localStorage, FALSE, FALSE)

\* App.tsx:121-123
handleOldDomainChange(value) ==
    /\ oldDomain' = removeProtocol(value)
    /\ UNCHANGED <<inputUrls, newDomain, outputUrls, history, presets, presetName,
                   autoExtractEnabled, now, exVars>>
    /\ commit("handleOldDomainChange", value, localStorage, FALSE, FALSE)

\* App.tsx:125-127
handleNewDomainChange(value) ==
    /\ newDomain' = removeProtocol(value)
    /\ UNCHANGED <<inputUrls, oldDomain, outputUrls, history, presets, presetName,
                   autoExtractEnabled, now, exVars>>
    /\ commit("handleNewDomainChange", value, localStorage, FALSE, FALSE)

\* onChange of the preset name input, App.tsx:377
setPresetName(value) ==
    /\ presetName' = value
    /\ UNCHANGED <<inputUrls, oldDomain, newDomain, outputUrls, history, presets,
                   autoExtractEnabled, now, exVars>>
    /\ commit("setPresetName", value, localStorage, FALSE, FALSE)

\* onClick of the auto-extract button, App.tsx:321
toggleAutoExtract ==
    /\ autoExtractEnabled' = ~autoExtractEnabled
    /\ UNCHANGED <<inputUrls, oldDomain, newDomain, outputUrls, history, presets,
                   presetName, now, exVars>>
    /\ commit("toggleAutoExtract", <<>>, localStorage, FALSE, FALSE)

\* prevHistory.slice(0, 19), App.tsx:187
HistoryKeep == 19

\* slice without its end index: nothing is dropped.
sliceAll(seq, n) == seq

\* slice that keeps the end of the list, not its start.
sliceFromEnd(seq, n) ==
    SubSeq(seq, IF Len(seq) < n THEN 1 ELSE Len(seq) - n + 1, Len(seq))

slice(seq, n) == SubSeq(seq, 1, IF Len(seq) < n THEN Len(seq) ELSE n)

\* The validation without the check of the new domain.
replaceInvalidNoNewCheck(text, cleanOldDomain, cleanNewDomain) ==
    text = <<>> \/ cleanOldDomain = <<>>

\* The validation of lines 141-146 fails.
replaceInvalid(text, cleanOldDomain, cleanNewDomain) ==
    text = <<>> \/ cleanOldDomain = <<>> \/ cleanNewDomain = <<>>

\* App.tsx:130-194.  dId and dTs are how far the clock has moved at the two
\* Date.now() calls of lines 180 and 181.
handleReplace(dId, dTs) ==
    LET cleanOldDomain == removeProtocol(trim(oldDomain))
        cleanNewDomain == removeProtocol(trim(newDomain))
        newHistoryEntry ==
            [id |-> ToString(now + dId), timestamp |-> now + dId + dTs,
             inputUrls |-> inputUrls, oldDomain |-> cleanOldDomain,
             newDomain |-> cleanNewDomain]
    IN /\ oldDomain' = cleanOldDomain
       /\ newDomain' = cleanNewDomain
       /\ UNCHANGED <<inputUrls, presets, presetName, autoExtractEnabled, exVars>>
       /\ IF replaceInvalid(inputUrls, cleanOldDomain, cleanNewDomain)
          THEN /\ UNCHANGED <<outputUrls, history, now>>
               /\ commit("handleReplace", <<>>, localStorage, FALSE, FALSE)
          ELSE /\ outputUrls' =
                      join(replacedUrlsArray(inputUrls, cleanOldDomain, cleanNewDomain))
               /\ history' = <<newHistoryEntry>> \o slice(history, HistoryKeep)
               /\ now' = now + dId + dTs
               /\ commit("handleReplace", <<>>, localStorage, TRUE, FALSE)

\* App.tsx:197-204
handleClearInputs ==
    /\ inputUrls' = <<>>
    /\ oldDomain' = <<>>
    /\ newDomain' = <<>>
    /\ outputUrls' = <<>>
    /\ UNCHANGED <<history, presets, presetName, autoExtractEnabled, now, exVars>>
    /\ commit("handleClearInputs", <<>>, localStorage, FALSE, FALSE)

\* history.find(h => h.id === entryId): the index of the first such entry, or 0.
findIndex(collection, id) ==
    IF \E i \in 1..Len(collection) : collection[i].id = id
    THEN CHOOSE i \in 1..Len(collection) :
             collection[i].id = id /\ \A j \in 1..(i - 1) : collection[j].id # id
    ELSE 0

\* loadFromHistory without setOutputUrls('').
loadFromHistoryKeepsOutput(entryId) ==
    LET i == findIndex(history, entryId)
    IN /\ IF i # 0
          THEN /\ inputUrls' = history[i].inputUrls
               /\ oldDomain' = history[i].oldDomain
               /\ newDomain' = history[i].newDomain
          ELSE UNCHANGED <<inputUrls, oldDomain, newDomain>>
       /\ UNCHANGED <<outputUrls, history, presets, presetName, autoExtractEnabled,
                      now, exVars>>
       /\ commit("loadFromHistory", <<entryId>>, localStorage, FALSE, FALSE)

\* App.tsx:223-232
loadFromHistory(entryId) ==
    LET i == findIndex(history, entryId)
    IN /\ IF i # 0
          THEN /\ inputUrls' = history[i].inputUrls
               /\ oldDomain' = history[i].oldDomain
               /\ newDomain' = history[i].newDomain
               /\ outputUrls' = <<>>
          ELSE UNCHANGED <<inputUrls, oldDomain, newDomain, outputUrls>>
       /\ UNCHANGED <<history, presets, presetName, autoExtractEnabled, now, exVars>>
       /\ commit("loadFromHistory", <<entryId>>, localStorage, FALSE, FALSE)

\* prev.filter(e => e.id !== id), lines 235 and 283
removeById(collection, id) == SelectSeq(collection, LAMBDA e : e.id # id)

\* App.tsx:234-237
deleteHistoryEntry(entryId) ==
    /\ history' = removeById(history, entryId)
    /\ UNCHANGED <<inputUrls, oldDomain, newDomain, outputUrls, presets, presetName,
                   autoExtractEnabled, now, exVars>>
    /\ commit("deleteHistoryEntry", <<entryId>>, localStorage, TRUE, FALSE)

\* App.tsx:239-243
clearHistory ==
    /\ history' = <<>>
    /\ UNCHANGED <<inputUrls, oldDomain, newDomain, outputUrls, presets, presetName,
                   autoExtractEnabled, now, exVars>>
    /\ commit("clearHistory", <<>>, removeItem(localStorage, HistoryKey), TRUE, FALSE)

\* The checks without the lookup of an existing name.
presetRejectedNoLookup(name, cleanOldDomain, cleanNewDomain, collection) ==
    name = <<>> \/ cleanOldDomain = <<>> \/ cleanNewDomain = <<>>
\* The checks without those of the two domains.
presetRejectedNameOnly(name, cleanOldDomain, cleanNewDomain, collection) ==
    \/ name = <<>>
    \/ \E i \in 1..Len(collection) : collection[i].name = name

\* The checks of lines 250-258: the preset is not saved.
presetRejected(name, cleanOldDomain, cleanNewDomain, collection) ==
    \/ name = <<>> \/ cleanOldDomain = <<>> \/ cleanNewDomain = <<>>
    \/ \E i \in 1..Len(collection) : collection[i].name = name

\* App.tsx:246-271.  dId is how far the clock has moved at Date.now(), line 260.
savePreset(dId) ==
    LET cleanOldDomain == removeProtocol(trim(oldDomain))
        cleanNewDomain == removeProtocol(trim(newDomain))
        newPreset == [id |-> ToString(now + dId), name |-> presetName,
                      oldDomain |-> cleanOldDomain, newDomain |-> cleanNewDomain]
    IN /\ UNCHANGED <<inputUrls, outputUrls, history, autoExtractEnabled, exVars>>
       /\ IF presetRejected(presetName, cleanOldDomain, cleanNewDomain, presets)
          THEN /\ UNCHANGED <<oldDomain, newDomain, presets, presetName, now>>
               /\ commit("savePreset", <<>>, localStorage, FALSE, FALSE)
          ELSE /\ presets' = Append(presets, newPreset)
               /\ presetName' = <<>>
               /\ oldDomain' = cleanOldDomain
               /\ newDomain' = cleanNewDomain
               /\ now' = now + dId
               /\ commit("savePreset", <<>>, localStorage, FALSE, TRUE)

\* loadPreset that also empties the output.
loadPresetClearsOutput(presetId) ==
    LET i == findIndex(presets, presetId)
    IN /\ IF i # 0
          THEN /\ oldDomain' = presets[i].oldDomain
               /\ newDomain' = presets[i].newDomain
               /\ outputUrls' = <<>>
          ELSE UNCHANGED <<oldDomain, newDomain, outputUrls>>
       /\ UNCHANGED <<inputUrls, history, presets, presetName,
                      autoExtractEnabled, now, exVars>>
       /\ commit("loadPreset", <<presetId>>, localStorage, FALSE, FALSE)

\* App.tsx:273-280
loadPreset(presetId) ==
    LET i == findIndex(presets, presetId)
    IN /\ IF i # 0
          THEN /\ oldDomain' = presets[i].oldDomain
               /\ newDomain' = presets[i].newDomain
          ELSE UNCHANGED <<oldDomain, newDomain>>
       /\ UNCHANGED <<inputUrls, outputUrls, history, presets, presetName,
                      autoExtractEnabled, now, exVars>>
       /\ commit("loadPreset", <<presetId>>, localStorage, FALSE, FALSE)

\* App.tsx:282-285
deletePreset(presetId) ==
    /\ presets' = removeById(presets, presetId)
    /\ UNCHANGED <<inputUrls, oldDomain, newDomain, outputUrls, history, presetName,
                   autoExtractEnabled, now, exVars>>
    /\ commit("deletePreset", <<presetId>>, localStorage, FALSE, TRUE)

-----------------------------------------------------------------------------
(* The environment: what the user types and clicks, what the store holds at *)
(* startup, how the clock moves; and the bounds of the model.               *)

MaxNow == 2         \* the clock is read while it stays at or below this
MaxEntries == 2     \* Spec: replaces are made while the history is shorter
CapNow == 22        \* SpecCap: the clock is read while it stays below this
MaxLines == 4       \* SpecExtract: lines of the texts given to extractCommonDomain

UrlA == <<"https://", "a.com", "/1">>
UrlAUpper == <<"HTTPS://", "A.com", "/2">>
UrlB == <<"http://", "b.com", "/3">>
UrlC == <<" ", "https://", "c.com">>
NotAUrl == <<"not a url">>
BlankLine == <<" ">>

TextA == join(<<UrlA, NotAUrl>>)

InputTexts == {<<>>, TextA}
TypedOldDomains == {<<>>, <<" ">>, <<"https://", "HTTP://", "a.com">>}
TypedNewDomains == {<<>>, <<"n.com">>}
TypedPresetNames == {<<"p">>}
ClockSteps == {0, 1}

\* The ids the user can click (the entries rendered, lines 387-443), and one id
\* that names no entry.
NoSuchId == "none"
idChoices(collection) == {collection[i].id : i \in 1..Len(collection)} \cup {NoSuchId}

\* What an earlier session of the program can have left in the store.
StoredHistory ==
    <<[id |-> "0", timestamp |-> 0, inputUrls |-> TextA,
       oldDomain |-> <<"a.com">>, newDomain |-> <<"n.com">>]>>
StoredPresets ==
    <<[id |-> "0", name |-> <<"q">>, oldDomain |-> <<"a.com">>,
       newDomain |-> <<"n.com">>]>>

\* The store at startup: no record, a record this program wrote, or a corrupted
\* record (a text that is not JSON, or the JSON text null).
InitialStores ==
    [{HistoryKey} -> {Absent, JSONstringify(StoredHistory), Garbage, JsonNull}]
    \X [{PresetsKey} -> {Absent, JSONstringify(StoredPresets), Garbage, JsonNull}]

MountEffects == <<"load", "saveHistory", "savePresets", "autoExtract">>

\* The component is mounted: the first render has the initial state of lines
\* 33-40 and all four effects are to run.
Mounted(store) ==
    /\ inputUrls = <<>>
    /\ oldDomain = <<>>
    /\ newDomain = <<>>
    /\ outputUrls = <<>>
    /\ history = <<>>
    /\ presets = <<>>
    /\ presetName = <<>>
    /\ autoExtractEnabled = TRUE
    /\ localStorage = store
    /\ now = 1
    /\ pc = "mount"
    /\ queue = MountEffects
    /\ pend = NoPend
    /\ op = [name |-> "mount", arg |-> <<>>]

ExIdle ==
    /\ exText = <<>>
    /\ exResult = Null
    /\ exDone = TRUE

emptyStore == [k \in {HistoryKey, PresetsKey} |-> Absent]

\* Spec: the first start of the program, with nothing stored.
Init ==
    /\ Mounted(emptyStore)
    /\ ExIdle

Effects ==
    \/ LoadEffect
    \/ SaveHistoryEffect
    \/ SavePresetsEffect
    \/ AutoExtractEffect
    \/ Render

Next ==
    \/ Effects
    \/ \E text \in InputTexts \ {inputUrls} : setInputUrls(text)
    \/ \E value \in TypedOldDomains \ {oldDomain} : handleOldDomainChange(value)
    \/ \E value \in TypedNewDomains \ {newDomain} : handleNewDomainChange(value)
    \/ \E value \in TypedPresetNames \ {presetName} : setPresetName(value)
    \/ toggleAutoExtract
    \/ \E dId \in ClockSteps :
           /\ now + dId <= MaxNow
           /\ Len(history) < MaxEntries
           /\ handleReplace(dId, 0)
    \/ handleClearInputs
    \/ \E id \in idChoices(history) : loadFromHistory(id)
    \/ \E id \in idChoices(history) : deleteHistoryEntry(id)
    \/ (Len(history) > 0 /\ clearHistory)
    \/ \E dId \in ClockSteps : (now + dId <= MaxNow /\ savePreset(dId))
    \/ \E id \in idChoices(presets) : loadPreset(id)
    \/ \E id \in idChoices(presets) : deletePreset(id)

Spec == Init /\ [][Next]_vars

-----------------------------------------------------------------------------
(* SpecStartup: a start with any of the initial stores, then the operations *)
(* on the two collections.                                                   *)

InitStartup ==
    /\ \E s \in InitialStores :
           Mounted([k \in {HistoryKey, PresetsKey} |->
                       IF k = HistoryKey THEN s[1][k] ELSE s[2][k]])
    /\ ExIdle

StartupPresetNames == {<<"p">>, <<"q">>}

NextStartup ==
    \/ Effects
    \/ (inputUrls # TextA /\ setInputUrls(TextA))
    \/ (newDomain # <<"n.com">> /\ handleNewDomainChange(<<"n.com">>))
    \/ \E value \in StartupPresetNames \ {presetName} : setPresetName(value)
    \/ \E dId \in ClockSteps :
           /\ now + dId <= MaxNow
           /\ Len(history) < MaxEntries
           /\ handleReplace(dId, 0)
    \/ \E id \in idChoices(history) : loadFromHistory(id)
    \/ \E id \in idChoices(history) : deleteHistoryEntry(id)
    \/ (Len(history) > 0 /\ clearHistory)
    \/ \E dId \in ClockSteps : (now + dId <= MaxNow /\ savePreset(dId))
    \/ \E id \in idChoices(presets) : loadPreset(id)
    \/ \E id \in idChoices(presets) : deletePreset(id)

SpecStartup == InitStartup /\ [][NextStartup]_vars

-----------------------------------------------------------------------------
(* SpecCap: from an empty store, enough replaces to fill the history and    *)
(* overflow it.  Every replace is made in a new millisecond, presets are     *)
(* saved in the millisecond of the last replace, and the user deletes the    *)
(* oldest entry and loads the newest.                                        *)

oldestId(collection) ==
    IF collection = <<>> THEN {} ELSE {collection[Len(collection)].id}
newestId(collection) ==
    IF collection = <<>> THEN {} ELSE {collection[1].id}

NextCap ==
    \/ Effects
    \/ (inputUrls # TextA /\ setInputUrls(TextA))
    \/ (newDomain # <<"n.com">> /\ handleNewDomainChange(<<"n.com">>))
    \/ (presetName # <<"p">> /\ setPresetName(<<"p">>))
    \/ (now < CapNow /\ handleReplace(1, 0))
    \/ \E id \in newestId(history) : loadFromHistory(id)
    \/ \E id \in oldestId(history) : deleteHistoryEntry(id)
    \/ (Len(history) > 0 /\ clearHistory)
    \/ savePreset(0)
    \/ \E id \in newestId(presets) : loadPreset(id)
    \/ \E id \in newestId(presets) : deletePreset(id)

SpecCap == Init /\ [][NextCap]_vars

-----------------------------------------------------------------------------
(* SpecExtract: extractCommonDomain applied to every text of up to MaxLines *)
(* lines.                                                                    *)

ExLines == {UrlA, UrlAUpper, UrlB, UrlC, NotAUrl, BlankLine}
ExTexts == {join(ls) : ls \in UNION {[1..n -> ExLines] : n \in 0..MaxLines}}

InitExtract ==
    /\ Mounted(emptyStore)
    /\ exText \in ExTexts
    /\ exResult = Null
    /\ exDone = FALSE

ApplyExtract ==
    /\ ~exDone
    /\ exResult' = extractCommonDomain(exText)
    /\ exDone' = TRUE
    /\ UNCHANGED <<appVars, runVars, exText>>

NextExtract == ApplyExtract

SpecExtract == InitExtract /\ [][NextExtract]_vars

-----------------------------------------------------------------------------
(* SpecReplace: the form is filled in and ReplaceDomains is invoked once.   *)
(* Auto-extract has been switched off, so that every text can meet every    *)
(* old domain.                                                               *)

MaxRepLines == 2    \* SpecReplace: lines of the input text

UrlASpaced == <<" ", "https://", "a.com">>
UrlOnB == <<"https://", "b.com", "/a.com">>
RepLines == {UrlA, UrlAUpper, UrlASpaced, UrlOnB, NotAUrl, BlankLine}
RepTexts == {join(ls) : ls \in UNION {[1..n -> RepLines] : n \in 1..MaxRepLines}}

RepTypedOld ==
    {<<"a.com">>, <<"A.com">>, <<" ", "a.com">>, <<"HTTPS://", "a.com">>,
     <<"https://", "HTTP://", "a.com">>}
RepTypedNew ==
    {<<"n.com">>, <<"a.com">>, <<"A.com">>, <<"n.com:8080">>, <<"n.com", "/2">>,
     <<"http://", "n.com">>}

InitReplace ==
    /\ inputUrls \in RepTexts
    /\ oldDomain = <<>>
    /\ newDomain = <<>>
    /\ outputUrls = <<>>
    /\ history = <<>>
    /\ presets = <<>>
    /\ presetName = <<>>
    /\ autoExtractEnabled = FALSE
    /\ localStorage = emptyStore
    /\ now = 1
    /\ pc = "idle"
    /\ queue = <<>>
    /\ pend = NoPend
    /\ op = [name |-> "setInputUrls", arg |-> inputUrls]
    /\ ExIdle

NextReplace ==
    \/ \E value \in RepTypedOld :
           oldDomain = <<>> /\ history = <<>> /\ handleOldDomainChange(value)
    \/ \E value \in RepTypedNew :
           newDomain = <<>> /\ history = <<>> /\ handleNewDomainChange(value)
    \/ (history = <<>> /\ handleReplace(1, 0))

SpecReplace == InitReplace /\ [][NextReplace]_vars

-----------------------------------------------------------------------------
(* Properties *)

\* A step that is the invocation of the handler called name.
handlerStep(name) == pc = "idle" /\ op'.name = name

cleaned(domain) == removeProtocol(trim(domain))

storedHistory == localStorage[HistoryKey]
storedPresets == localStorage[PresetsKey]

\* C1: in every state reached from a start with an empty store, the history
\* in memory holds at most 20 entries, and so does the persisted history record.
C1_HistoryAtMost20 ==
    /\ Len(history) <= 20
    /\ storedHistory.kind = "array" => Len(storedHistory.val) <= 20

\* C1 witness: the replace made at clock value 22 (the 21st) has completed,
\* and the history and its record hold the 20 newest entries.
C1_Witness ==
    /\ pc = "idle"
    /\ op.name = "handleReplace"
    /\ Len(history) = 20
    /\ history[1].id = "22"
    /\ history[20].id = "3"
    /\ storedHistory = JSONstringify(history)

\* The validation of ReplaceDomains fails in the current state.
replaceFails ==
    inputUrls = <<>> \/ cleaned(oldDomain) = <<>> \/ cleaned(newDomain) = <<>>

\* C2 as claimed: a ReplaceDomains that fails validation leaves every state
\* variable as it was, after the handler and after the effects it triggers.
C2_NoMutationOnValidationError ==
    [][/\ (handlerStep("handleReplace") /\ replaceFails)
            => UNCHANGED <<appVars, localStorage>>
       /\ (pc = "render" /\ op.name = "handleReplace")
            => UNCHANGED <<appVars, localStorage>>]_vars

\* C2 amended: a ReplaceDomains that fails validation leaves the input text,
\* the output, the history, the presets, the preset name, the toggle and the
\* persisted records as they were, and sets the two domain fields to their
\* trimmed, protocol-stripped values; when that empties the old-domain field
\* while auto-extract is Enabled and the input text has a common domain, the
\* auto-extract effect then writes that domain into the old-domain field.
C2_ValidationErrorCleansDomains ==
    [][/\ (handlerStep("handleReplace") /\ replaceFails)
            => /\ UNCHANGED <<inputUrls, outputUrls, history, presets, presetName,
                              autoExtractEnabled, localStorage, now>>
               /\ oldDomain' = cleaned(oldDomain)
               /\ newDomain' = cleaned(newDomain)
               /\ (pc' = "render") =
                      (/\ oldDomain # <<>>
                       /\ cleaned(oldDomain) = <<>>
                       /\ autoExtractEnabled
                       /\ extractCommonDomain(inputUrls) \notin {Null, <<>>})
               /\ pc' \in {"render", "idle"}
       /\ (pc = "render" /\ op.name = "handleReplace")
            => /\ UNCHANGED <<inputUrls, newDomain, outputUrls, history, presets,
                              presetName, autoExtractEnabled, localStorage, now>>
               /\ oldDomain' = extractCommonDomain(inputUrls)
               /\ pc' = "idle"]_vars

\* C2 witness: a ReplaceDomains that failed validation has emptied a blank
\* old-domain field, and the auto-extract effect has queued its write.
C2_Witness ==
    /\ pc = "render"
    /\ op.name = "handleReplace"
    /\ oldDomain = <<>>
    /\ pend.oldDomain # <<>>

\* SavePreset is rejected in the current state.
saveRejected ==
    \/ presetName = <<>>
    \/ cleaned(oldDomain) = <<>>
    \/ cleaned(newDomain) = <<>>
    \/ \E i \in 1..Len(presets) : presets[i].name = presetName

\* C3: a SavePreset with an empty name, an empty normalized domain or the
\* name of an existing preset changes neither the presets, nor their persisted
\* record, nor the preset-name field, nor the two domain fields.
C3_RejectedSavePresetChangesNothing ==
    [][(handlerStep("savePreset") /\ saveRejected)
          => /\ UNCHANGED <<presets, localStorage, presetName, oldDomain, newDomain>>
             /\ pc' = "idle"]_vars

\* C3 witness: SavePreset was invoked with the name of an existing preset (a
\* save that succeeds empties the preset-name field).
C3_Witness ==
    /\ pc = "idle"
    /\ op.name = "savePreset"
    /\ presetName # <<>>
    /\ \E i \in 1..Len(presets) : presets[i].name = presetName

\* C4: no two entries of the presets collection have the same name.
C4_PresetNamesDistinct ==
    \A i, j \in 1..Len(presets) : i # j => presets[i].name # presets[j].name

\* C4 witness: a preset was saved next to the one loaded from the store, and
\* a SavePreset under an existing name has been turned down.
C4_Witness ==
    /\ pc = "idle"
    /\ op.name = "savePreset"
    /\ Len(presets) = 2
    /\ presets[1].id = "0"
    /\ presetName = presets[2].name

\* The claims' reading of an input text: its valid lines are the non-empty
\* lines that parse as URLs, and a hostname's tally is the number of valid
\* lines that carry it.
validLines(text) ==
    LET urls == nonEmptyLines(text)
    IN {i \in 1..Len(urls) : parseURL(trim(urls[i])).ok}
hostOf(text, i) == parseURL(trim(nonEmptyLines(text)[i])).hostname
hostnames(text) == {hostOf(text, i) : i \in validLines(text)}
tallyOf(text, h) == Cardinality({i \in validLines(text) : hostOf(text, i) = h})
mostFrequent(text) ==
    {h \in hostnames(text) : \A g \in hostnames(text) : tallyOf(text, g) <= tallyOf(text, h)}

\* C5 as claimed: extractCommonDomain returns the most frequent parsed
\* hostname exactly when its tally is more than half the number of valid lines
\* or the valid lines carry exactly one distinct hostname, and null otherwise.
C5_MajorityOfValidLines ==
    exDone =>
        IF \/ Cardinality(hostnames(exText)) = 1
           \/ \E h \in hostnames(exText) :
                  2 * tallyOf(exText, h) > Cardinality(validLines(exText))
        THEN /\ exResult # Null
             /\ exResult[1] \in mostFrequent(exText)
        ELSE exResult = Null

C7_AutoExtractOnlyFillsEmpty ==
    [][(pc \in {"mount", "render"} /\ oldDomain' # oldDomain)
          => (autoExtractEnabled /\ oldDomain = <<>>)]_vars

\* C7 witness: with auto-extract Enabled and the field empty, the effect has
\* queued its write after the input text changed.
C7_Witness ==
    /\ pc = "render"
    /\ op.name = "setInputUrls"
    /\ autoExtractEnabled
    /\ oldDomain = <<>>
    /\ pend.oldDomain = <<extractCommonDomain(inputUrls)>>

\* The operations that change the input text.
InputTextOps == {"setInputUrls", "handleClearInputs", "loadFromHistory"}

\* C8 as claimed: the auto-extract effect writes the old-domain field only in
\* response to a change of the input text, so a manual edit of the field
\* (clearing it included) or a toggle is never followed by such a write.
C8_WritesOnlyOnInputChange ==
    [][(pc = "render" /\ oldDomain' # oldDomain) => op.name \in InputTextOps]_vars

\* C8 amended: an edit of the old-domain field stores the protocol-stripped
\* value, and a toggle leaves the field alone; the auto-extract effect leaves
\* that value in place unless the field is empty, auto-extract is Enabled and
\* the input text has a common domain, in which case it writes that domain
\* into the field: this happens after the field is cleared and after
\* auto-extract is switched on over an empty field.
C8_ManualEditKeptUnlessEmpty ==
    [][/\ handlerStep("handleOldDomainChange")
            => /\ oldDomain' = removeProtocol(op'.arg)
               /\ (pc' = "render") =
                      (/\ oldDomain # <<>>
                       /\ removeProtocol(op'.arg) = <<>>
                       /\ autoExtractEnabled
                       /\ extractCommonDomain(inputUrls) \notin {Null, <<>>})
       /\ handlerStep("toggleAutoExtract")
            => /\ oldDomain' = oldDomain
               /\ (pc' = "render") =
                      (/\ oldDomain = <<>>
                       /\ ~autoExtractEnabled
                       /\ extractCommonDomain(inputUrls) \notin {Null, <<>>})
       /\ (pc = "render" /\ op.name \in {"handleOldDomainChange", "toggleAutoExtract"})
            => /\ oldDomain = <<>>
               /\ oldDomain' = extractCommonDomain(inputUrls)
               /\ pc' = "idle"]_vars

\* C8 witness: the user has cleared the old-domain field, and the effect has
\* queued the extracted domain for it.
C8_Witness ==
    /\ pc = "render"
    /\ op = [name |-> "handleOldDomainChange", arg |-> <<>>]
    /\ oldDomain = <<>>
    /\ pend.oldDomain # <<>>

\* The persisted record under key mirrors collection.
mirrors(key, collection) ==
    localStorage[key] = IF collection = <<>> THEN Absent ELSE JSONstringify(collection)

\* C9 as claimed: whatever text is stored under a collection's key, startup
\* does not raise, ends with the saved collection or the empty one in memory,
\* and leaves no record behind an empty collection.
C9_StartupSelfHealing ==
    /\ pc # "crashed"
    /\ (pc = "idle" /\ op.name = "mount")
          => /\ history \in {<<>>, StoredHistory}
             /\ presets \in {<<>>, StoredPresets}
             /\ mirrors(HistoryKey, history)
             /\ mirrors(PresetsKey, presets)

\* C10: once an operation and the effects it triggers have run, each
\* persisted record is absent when its collection is empty and is the
\* serialization of the collection otherwise.
C10_StoreMirrorsMemory ==
    pc = "idle" => (mirrors(HistoryKey, history) /\ mirrors(PresetsKey, presets))

\* C10 witness: the last history entry has been deleted while a preset
\* remains.
C10_Witness ==
    /\ pc = "idle"
    /\ op.name = "deleteHistoryEntry"
    /\ history = <<>>
    /\ storedHistory = Absent
    /\ presets # <<>>
    /\ storedPresets = JSONstringify(presets)

\* The lines ReplaceDomains works on: those of text that are not empty once
\* trimmed, each trimmed.
trimmedLines(text) ==
    LET kept == SelectSeq(split(text), LAMBDA l : trim(l) # <<>>)
    IN [i \in 1..Len(kept) |-> trim(kept[i])]
linesOf(text) == IF text = <<>> THEN <<>> ELSE split(text)
sameHost(hostname, domain) == toLowerCase(<<hostname>>) = toLowerCase(domain)

\* ReplaceDomains has passed validation and produced the output text from the
\* input text and the two domain fields, which hold the cleaned domains.
replaced == pc = "idle" /\ op.name = "handleReplace" /\ history # <<>>

\* C11: the output of replace has one line per non-empty input line, in the
\* same order; a line that parses and whose hostname equals oldDomain, case
\* ignored, is emitted as a serialized URL, a line that parses with another
\* hostname is emitted as it is, a line that does not parse is emitted with
\* the invalid marker, whatever the lines before it; and the invalid count is
\* the number of lines emitted with the marker.
C11_OneOutputLinePerInputLine ==
    replaced =>
        LET in == trimmedLines(inputUrls)
            out == linesOf(outputUrls)
            marked == {i \in 1..Len(in) : ~parseURL(in[i]).ok}
        IN /\ Len(out) = Len(in)
           /\ \A i \in 1..Len(in) :
                  IF i \in marked THEN out[i] = in[i] \o <<InvalidMarker>>
                  ELSE IF sameHost(parseURL(in[i]).hostname, oldDomain)
                       THEN /\ parseURL(out[i]).ok
                            /\ out[i] = urlToString(parseURL(out[i]))
                       ELSE out[i] = in[i]
           /\ invalidUrlCount(inputUrls) = Cardinality(marked)

\* C11 witness: a line that does not parse is followed by a line that is
\* replaced.
C11_Witness ==
    /\ replaced
    /\ inputUrls = join(<<NotAUrl, UrlA>>)
    /\ outputUrls = join(<<NotAUrl \o <<InvalidMarker>>, <<"https://", "n.com", "/1">> >>)

\* C12 as claimed: a line whose hostname equals oldDomain is emitted
\* as a URL with hostname newDomain and the scheme and the rest of the input
\* URL; a valid line with another hostname is emitted as the trimmed input line.
C12_OnlyHostnameReplaced ==
    replaced =>
        LET in == trimmedLines(inputUrls)
            out == linesOf(outputUrls)
        IN \A i \in 1..Len(in) :
               parseURL(in[i]).ok =>
                   IF sameHost(parseURL(in[i]).hostname, oldDomain)
                   THEN /\ parseURL(out[i]).ok
                        /\ sameHost(parseURL(out[i]).hostname, newDomain)
                        /\ parseURL(out[i]).scheme = parseURL(in[i]).scheme
                        /\ parseURL(out[i]).path = parseURL(in[i]).path
                   ELSE out[i] = in[i]

\* removeProtocol as the claim describes it: one leading http:// or https://,
\* in either case, is taken off.
stripOnePrefix(value) ==
    IF value # <<>> /\ Head(value) \in {"http://", "https://", "HTTP://", "HTTPS://"}
    THEN Tail(value)
    ELSE value

\* C13: removeProtocol takes exactly one leading http:// or https://, in
\* either case, off its argument and returns the rest as it is; an argument
\* without such a prefix, the empty one included, is returned unchanged.
C13_StripsOneLeadingProtocol ==
    [][/\ handlerStep("handleOldDomainChange") => oldDomain' = stripOnePrefix(op'.arg)
       /\ handlerStep("handleNewDomainChange") => newDomain' = stripOnePrefix(op'.arg)]_vars

\* C13 witness: of two leading prefixes, the first has been taken off.
C13_Witness ==
    /\ op = [name |-> "handleOldDomainChange", arg |-> <<"https://", "HTTP://", "a.com">>]
    /\ oldDomain = <<"HTTP://", "a.com">>

\* The cleaned new domains of SpecReplace.
OtherNewDomains == {cleaned(value) : value \in RepTypedNew}

\* C14: with oldDomain equal to newDomain, a line that is invalid or has
\* another hostname is emitted as for every other newDomain; a matching line
\* is emitted as the serialization of the input URL, its hostname still equal
\* to the domain, it is the line that is replaced for every other newDomain,
\* and replacing again leaves it as it is.
C14_SameDomainIsIdentity ==
    (replaced /\ oldDomain = newDomain) =>
        LET in == trimmedLines(inputUrls)
            out == linesOf(outputUrls)
        IN \A i \in 1..Len(in) :
               LET url == parseURL(in[i])
               IN IF url.ok /\ sameHost(url.hostname, oldDomain)
                  THEN /\ out[i] = urlToString(url)
                       /\ sameHost(parseURL(out[i]).hostname, oldDomain)
                       /\ replaceLine(out[i], oldDomain, oldDomain) = out[i]
                       /\ \A x \in OtherNewDomains :
                              replaceLine(in[i], oldDomain, x) = urlToString(setHostname(url, x))
                  ELSE \A x \in OtherNewDomains : replaceLine(in[i], oldDomain, x) = out[i]

\* C14 witness: replace with the same domain twice has re-serialized a
\* matching line and passed a line of another host through.
C14_Witness ==
    /\ replaced
    /\ oldDomain = <<"A.com">>
    /\ newDomain = <<"A.com">>
    /\ inputUrls = join(<<UrlAUpper, UrlOnB>>)
    /\ outputUrls = join(<<<<"https://", "a.com", "/2">>, UrlOnB>>)

\* C15: a ReplaceDomains that passes validation, invalid lines in the text
\* or not, makes the history one new entry, holding the input text and the
\* cleaned domains, followed by the first 19 entries of the history before, in
\* their order; one that fails validation leaves the history as it was.
C15_NewEntryThenFirst19 ==
    [][handlerStep("handleReplace") =>
          IF replaceFails THEN history' = history
          ELSE LET kept == IF Len(history) < 19 THEN Len(history) ELSE 19
               IN /\ Len(history') = 1 + kept
                  /\ history'[1].inputUrls = inputUrls
                  /\ history'[1].oldDomain = cleaned(oldDomain)
                  /\ history'[1].newDomain = cleaned(newDomain)
                  /\ \A i \in 1..kept : history'[i + 1] = history[i]]_vars

\* C15 witness: a replace of a text with an invalid line has pushed the
\* oldest of 20 entries out.
C15_Witness ==
    /\ pc = "idle"
    /\ op.name = "handleReplace"
    /\ Len(history) = 20
    /\ history[1].id = "22"
    /\ history[2].id = "21"
    /\ history[20].id = "3"
    /\ invalidUrlCount(history[1].inputUrls) = 1

idsDistinct(collection) ==
    \A i, j \in 1..Len(collection) : i # j => collection[i].id # collection[j].id

\* C16 as claimed: the ids of the history entries are pairwise distinct, and
\* so are the ids of the presets.
C16_IdsDistinct == idsDistinct(history) /\ idsDistinct(presets)

startsWithProtocol(domain) ==
    domain # <<>> /\ Head(domain) \in {"http://", "https://", "HTTP://", "HTTPS://"}

\* C17 as claimed: neither domain field, nor the oldDomain or newDomain
\* of a history entry or of a preset, begins with http:// or https://, in either
\* case.
C17_DomainsProtocolStripped ==
    /\ ~startsWithProtocol(oldDomain)
    /\ ~startsWithProtocol(newDomain)
    /\ \A i \in 1..Len(history) :
           ~startsWithProtocol(history[i].oldDomain) /\ ~startsWithProtocol(history[i].newDomain)
    /\ \A i \in 1..Len(presets) :
           ~startsWithProtocol(presets[i].oldDomain) /\ ~startsWithProtocol(presets[i].newDomain)

\* C18: LoadHistoryEntry of an id that is in the history sets the input text
\* and the two domain fields to the values of an entry with that id and empties
\* the output; of an id that is not in the history, it changes none of them.
\* Either way the history, the presets and the persisted records are as
\* before, and no effect has a write pending.
C18_LoadHistoryEntryFrame ==
    [][handlerStep("loadFromHistory") =>
          /\ IF \E i \in 1..Len(history) : history[i].id = op'.arg[1]
             THEN /\ \E i \in 1..Len(history) :
                         /\ history[i].id = op'.arg[1]
                         /\ inputUrls' = history[i].inputUrls
                         /\ oldDomain' = history[i].oldDomain
                         /\ newDomain' = history[i].newDomain
                  /\ outputUrls' = <<>>
             ELSE UNCHANGED <<inputUrls, oldDomain, newDomain, outputUrls>>
          /\ UNCHANGED <<history, presets, localStorage>>
          /\ pc' = "idle"]_vars

\* C18 witness: an entry has been loaded over a form that was cleared after
\* the replace.
C18_Witness ==
    /\ pc = "idle"
    /\ op.name = "loadFromHistory"
    /\ history # <<>>
    /\ op.arg = <<history[1].id>>
    /\ inputUrls = TextA
    /\ oldDomain = <<"a.com">>
    /\ outputUrls = <<>>
    /\ storedHistory = JSONstringify(history)

\* C19: LoadPreset of an id that is in the presets sets the two domain
\* fields to the values of a preset with that id and leaves the input text, the
\* output, the history and the presets as they were; no effect has a write
\* pending.
C19_LoadPresetFrame ==
    [][(/\ handlerStep("loadPreset")
        /\ \E i \in 1..Len(presets) : presets[i].id = op'.arg[1])
          => /\ \E i \in 1..Len(presets) :
                    /\ presets[i].id = op'.arg[1]
                    /\ oldDomain' = presets[i].oldDomain
                    /\ newDomain' = presets[i].newDomain
             /\ UNCHANGED <<inputUrls, outputUrls, history, presets, localStorage>>
             /\ pc' = "idle"]_vars

\* C19 witness: a preset has been loaded into a form whose old domain was
\* empty, under an input text with a common domain and an output.
C19_Witness ==
    /\ pc = "idle"
    /\ op.name = "loadPreset"
    /\ presets # <<>>
    /\ op.arg = <<presets[1].id>>
    /\ oldDomain = presets[1].oldDomain
    /\ newDomain = presets[1].newDomain
    /\ inputUrls = TextA
    /\ outputUrls # <<>>

\* C20 as claimed: no step of startup (the load effect, the save effects,
\* the re-render) removes or changes a persisted record that holds a collection.
C20_StartupKeepsValidRecords ==
    [][(op.name = "mount" /\ pc = "mount") =>
          /\ storedHistory.kind = "array" => storedHistory' = storedHistory
          /\ storedPresets.kind = "array" => storedPresets' = storedPresets]_vars

====
